---- MODULE Spec2Model ----
(***************************************************************************)
(* A model of saiteki_case_bot: the ingestion script store_to_vectordb.py  *)
(* (SaitekiManualHandler, VectorStore, __main__) and the question          *)
(* answering Agent of agent.py (FaissWithScore, Agent).                    *)
(*                                                                         *)
(* A text is a sequence of one-character strings.  The library calls the   *)
(* two files make (RecursiveCharacterTextSplitter, FAISS, OpenAIEmbeddings,*)
(* RetrievalQA) are modelled by what they do at the call site that uses    *)
(* them.                                                                   *)
(***************************************************************************)
EXTENDS Integers, Sequences, FiniteSets, TLC

\* ------------------------------------------------------------------ bounds
\* The splitter is configured with chunk_size=1000, chunk_overlap=50; texts of
\* that length cannot be enumerated, so the same algorithm runs with a small
\* chunk size and overlap standing for them.
ScaledChunkSize == 4
ScaledChunkOverlap == 1
\* Longest text the splitter specification enumerates.
MaxLen == 6

\* ------------------------------------------------------------------- texts
NL == "\n"
SP == " "
Alphabet == {"a", "b", SP, NL}
Whitespace == {SP, NL}

\* All texts of length at most n.
TextsUpTo(n) == UNION {[1..m -> Alphabet] : m \in 0..n}

\* Python's len(): the length function handed to the splitter.
length_function(t) == Len(t)

\* Whether sep occurs in text at position i.
OccursAt(text, sep, i) ==
    /\ i + Len(sep) - 1 <= Len(text)
    /\ SubSeq(text, i, i + Len(sep) - 1) = sep

\* `sep in text` for a non-empty sep.
Contains(text, sep) == \E i \in 1..Len(text) : OccursAt(text, sep, i)

\* str.find: the first position of sep in text, 0 when there is none.
Find(text, sep) ==
    IF Contains(text, sep)
    THEN CHOOSE i \in 1..Len(text) :
            /\ OccursAt(text, sep, i)
            /\ \A j \in 1..(i - 1) : ~OccursAt(text, sep, j)
    ELSE 0

\* str.split(sep) for a non-empty sep: the pieces between the occurrences of
\* sep taken left to right, empty pieces included.
RECURSIVE StrSplit(_, _)
StrSplit(text, sep) ==
    LET i == Find(text, sep)
    IN IF i = 0
       THEN <<text>>
       ELSE <<SubSeq(text, 1, i - 1)>>
            \o StrSplit(SubSeq(text, i + Len(sep), Len(text)), sep)

\* list(text): one piece per character.
Chars(text) == [i \in 1..Len(text) |-> <<text[i]>>]

\* separator.join(docs)
RECURSIVE StrJoin(_, _)
StrJoin(docs, sep) ==
    IF Len(docs) = 0 THEN <<>>
    ELSE IF Len(docs) = 1 THEN docs[1]
    ELSE docs[1] \o sep \o StrJoin(Tail(docs), sep)

\* str.strip(): leading and trailing whitespace removed.
RECURSIVE LStrip(_)
LStrip(t) == IF Len(t) > 0 /\ t[1] \in Whitespace THEN LStrip(Tail(t)) ELSE t

RECURSIVE RStrip(_)
RStrip(t) ==
    IF Len(t) > 0 /\ t[Len(t)] \in Whitespace
    THEN RStrip(SubSeq(t, 1, Len(t) - 1))
    ELSE t

Strip(t) == RStrip(LStrip(t))

\* -------------------------------------------- RecursiveCharacterTextSplitter
\* The separators the splitter tries, coarsest first; the last one, the empty
\* string, splits into characters.
Separators == << <<NL, NL>>, <<NL>>, <<SP>>, <<>> >>

\* TextSplitter._join_docs: the pieces joined and stripped, as a list holding
\* the chunk, or no chunk when nothing is left.
join_docs(docs, separator) ==
    LET text == Strip(StrJoin(docs, separator))
    IN IF text = <<>> THEN <<>> ELSE <<text>>

\* The separator's length counts only between two pieces.
SepLen(current_doc, separator, atLeast) ==
    IF Len(current_doc) > atLeast THEN length_function(separator) ELSE 0

\* A slip in the while loop: the running chunk is emptied, no overlap is kept.
PopFront_all(current_doc, total, len, separator, size, overlap) ==
    [doc |-> <<>>, total |-> 0]

\* The inner while loop of _merge_splits: pieces are popped from the front of
\* current_doc while it is longer than the overlap, or too long to take the
\* next piece.  Yields the remaining [doc, total].
RECURSIVE PopFront(_, _, _, _, _, _)
PopFront(current_doc, total, len, separator, size, overlap) ==
    IF \/ total > overlap
       \/ /\ total + len + SepLen(current_doc, separator, 0) > size
          /\ total > 0
    THEN PopFront(Tail(current_doc),
                  total - (length_function(current_doc[1])
                           + SepLen(current_doc, separator, 1)),
                  len, separator, size, overlap)
    ELSE [doc |-> current_doc, total |-> total]

\* TextSplitter._merge_splits from piece i on, with the loop's state: the
\* chunks so far, the pieces of the chunk being built and their total length.
RECURSIVE MergeFrom(_, _, _, _, _, _, _, _)
MergeFrom(splits, i, docs, current_doc, total, separator, size, overlap) ==
    IF i > Len(splits)
    THEN docs \o join_docs(current_doc, separator)
    ELSE
      LET d == splits[i]
          len == length_function(d)
          full == total + len + SepLen(current_doc, separator, 0) > size
          emit == full /\ Len(current_doc) > 0
          docs1 == IF emit THEN docs \o join_docs(current_doc, separator) ELSE docs
          kept == IF emit
                  THEN PopFront(current_doc, total, len, separator, size, overlap)
                  ELSE [doc |-> current_doc, total |-> total]
          doc2 == Append(kept.doc, d)
          total2 == kept.total + len + SepLen(doc2, separator, 1)
      IN MergeFrom(splits, i + 1, docs1, doc2, total2, separator, size, overlap)

merge_splits(splits, separator, size, overlap) ==
    MergeFrom(splits, 1, <<>>, <<>>, 0, separator, size, overlap)

\* The first separator of the list that occurs in the text, the empty one when
\* none does.
RECURSIVE PickSeparator(_, _)
PickSeparator(text, i) ==
    IF i >= Len(Separators) \/ Separators[i] = <<>> THEN <<>>
    ELSE IF Contains(text, Separators[i]) THEN Separators[i]
    ELSE PickSeparator(text, i + 1)

\* RecursiveCharacterTextSplitter.split_text: the text is split on the chosen
\* separator; runs of pieces shorter than the chunk size are merged, and a
\* piece that is not is split again on its own.
RECURSIVE split_text(_, _, _)
RECURSIVE SplitPieces(_, _, _, _, _, _)
SplitPieces(splits, i, good_splits, separator, size, overlap) ==
    IF i > Len(splits)
    THEN IF Len(good_splits) > 0
         THEN merge_splits(good_splits, separator, size, overlap)
         ELSE <<>>
    ELSE IF length_function(splits[i]) < size
    THEN SplitPieces(splits, i + 1, Append(good_splits, splits[i]),
                     separator, size, overlap)
    ELSE (IF Len(good_splits) > 0
          THEN merge_splits(good_splits, separator, size, overlap)
          ELSE <<>>)
         \o split_text(splits[i], size, overlap)
         \o SplitPieces(splits, i + 1, <<>>, separator, size, overlap)

split_text(text, size, overlap) ==
    LET separator == PickSeparator(text, 1)
        splits == IF separator # <<>> THEN StrSplit(text, separator) ELSE Chars(text)
    IN SplitPieces(splits, 1, <<>>, separator, size, overlap)

\* --------------------------------------------------------- bounds (pages)
\* Number of article pages the root page links to.
NumPages == 2
\* Clock resolution: ticks in one second.
TicksPerSecond == 2

\* ------------------------------------------------------ program constants
\* time.sleep(1) in _request.
SleepSeconds == 1
\* The default k of FaissWithScore.similarity_search.
DefaultK == 5

\* ---------------------------------------------------------------- the site
RootUrl == 0
PageUrls == 1..NumPages

BodyLong == <<"a", "b", "a", "a", "b", "b", "a", "b">>
BodyShort == <<"b", "a">>

\* What a fetched article page holds: the h1 title, the author list (ul) and
\* the user name (span) in it, and the body (div).
Page(h1, ul, span, div, text) ==
    [h1 |-> h1, ul |-> ul, span |-> span, div |-> div, text |-> text]

PageKinds ==
    { Page(TRUE, TRUE, TRUE, TRUE, BodyLong),
      Page(TRUE, TRUE, TRUE, TRUE, BodyShort),
      Page(FALSE, TRUE, TRUE, TRUE, BodyShort),
      Page(TRUE, FALSE, FALSE, TRUE, BodyShort),
      Page(TRUE, TRUE, TRUE, FALSE, <<>>) }

Complete(page) == page.h1 /\ page.ul /\ page.span /\ page.div

\* The sites considered: every page a long article, but for at most one page,
\* which is of any kind.
Sites ==
    { site \in [PageUrls -> PageKinds] :
        Cardinality({u \in PageUrls : site[u].text # BodyLong}) <= 1 }

\* ------------------------------------------------------------ documents
\* A Document's metadata: a dict with the keys source and title; the key
\* score is absent (<<>>) or holds one value (<<s>>).
NoScore == <<>>
\* A slip in generate_document: the metadata is given a score at ingestion.
Metadata_scored(url) ==
    [source |-> url, title |-> [title |-> url, username |-> url], score |-> <<0>>]

Metadata(url) ==
    [source |-> url, title |-> [title |-> url, username |-> url], score |-> NoScore]

Document(page_content, metadata) ==
    [page_content |-> page_content, metadata |-> metadata]

\* SaitekiManualHandler.generate_document on the fetched page: soup.find
\* yields None for an element the page lacks, and .text / .find on None
\* raises AttributeError.
generate_document(url, page) ==
    IF ~page.h1 THEN [ok |-> FALSE, error |-> "AttributeError"]
    ELSE IF ~page.ul THEN [ok |-> FALSE, error |-> "AttributeError"]
    ELSE IF ~page.span THEN [ok |-> FALSE, error |-> "AttributeError"]
    ELSE IF ~page.div THEN [ok |-> FALSE, error |-> "AttributeError"]
    ELSE [ok |-> TRUE, doc |-> Document(page.text, Metadata(url))]

\* SaitekiManualHandler._generate_documents from the i-th url on: the loop
\* appends each page's Document; an exception of generate_document leaves the
\* loop and the method.
RECURSIVE GenerateFrom(_, _, _, _)
GenerateFrom(page_urls, pages, i, documents) ==
    IF i > Len(page_urls) THEN [ok |-> TRUE, documents |-> documents]
    ELSE LET r == generate_document(page_urls[i], pages[page_urls[i]])
         IN IF r.ok
            THEN GenerateFrom(page_urls, pages, i + 1, Append(documents, r.doc))
            ELSE [ok |-> FALSE, error |-> r.error]

generate_documents(page_urls, pages) == GenerateFrom(page_urls, pages, 1, <<>>)

\* TextSplitter.create_documents for one Document: one chunk Document per
\* piece of split_text, each with its own copy of the metadata.
ChunksOf(doc) ==
    LET pieces == split_text(doc.page_content, ScaledChunkSize, ScaledChunkOverlap)
    IN [i \in 1..Len(pieces) |-> Document(pieces[i], doc.metadata)]

\* SaitekiManualHandler.split_documents
RECURSIVE split_documents(_)
split_documents(documents) ==
    IF Len(documents) = 0 THEN <<>>
    ELSE ChunksOf(documents[1]) \o split_documents(Tail(documents))

\* SaitekiManualHandler._get_page_urls: the hrefs of the root page's links.
get_page_urls(url) == [i \in 1..NumPages |-> i]

\* SaitekiManualHandler.get_documents_from_urls for the root url.
get_documents_from_urls(pages) ==
    LET content_urls == get_page_urls(RootUrl)
        r == generate_documents(content_urls, pages)
    IN IF r.ok
       THEN [ok |-> TRUE, documents |-> split_documents(r.documents)]
       ELSE [ok |-> FALSE, error |-> r.error]

\* ------------------------------------------------------- embedding, index
CharCode(c) == IF c = "a" THEN 1 ELSE IF c = "b" THEN 2 ELSE 0

\* The embedding provider: a vector for a text (here one number).
RECURSIVE Embed(_)
Embed(text) ==
    IF Len(text) = 0 THEN 0 ELSE (CharCode(text[1]) + 3 * Embed(Tail(text))) % 7

\* FAISS.from_documents: one entry (vector, Document) per document, in order.
from_documents(documents) ==
    [i \in 1..Len(documents) |->
        [vector |-> Embed(documents[i].page_content), doc |-> documents[i]]]

IndexNames == {"index", "alt"}
DefaultIndexName == "index"
\* What the folder holds under an index name: nothing, or the saved entries.
NoIndex == [saved |-> FALSE, entries |-> <<>>]
Saved(entries) == [saved |-> TRUE, entries |-> entries]

\* OpenAIEmbeddings(): the constructor reads OPENAI_API_KEY and raises when it
\* is absent; it makes no network call.
OpenAIEmbeddings(key) == key

\* A slip in store_to_vectoredb: the new entries are added to the index already
\* saved under the name.
store_to_vectoredb_merging(folder, name, documents, key) ==
    IF ~OpenAIEmbeddings(key)
    THEN [folder |-> folder, outcome |-> "MissingCredential", net |-> 0]
    ELSE IF Len(documents) = 0
    THEN [folder |-> folder, outcome |-> "IndexError", net |-> 1]
    ELSE [folder |-> [folder EXCEPT ![name] =
                        Saved(folder[name].entries \o from_documents(documents))],
          outcome |-> "ok", net |-> 1]

\* A slip in store_to_vectoredb: the key is looked for only by the provider,
\* when the texts are sent to it.
store_to_vectoredb_unchecked(folder, name, documents, key) ==
    IF Len(documents) = 0
    THEN [folder |-> folder, outcome |-> "IndexError", net |-> 1]
    ELSE IF ~key
    THEN [folder |-> folder, outcome |-> "AuthenticationError", net |-> 1]
    ELSE [folder |-> [folder EXCEPT ![name] = Saved(from_documents(documents))],
          outcome |-> "ok", net |-> 1]

\* VectorStore.store_to_vectoredb(documents) of a store with index_name name:
\* the folder afterwards, the outcome and the number of calls made to the
\* embedding provider.  save_local writes the files of its own index name.
store_to_vectoredb(folder, name, documents, key) ==
    IF ~OpenAIEmbeddings(key)
    THEN [folder |-> folder, outcome |-> "MissingCredential", net |-> 0]
    ELSE IF Len(documents) = 0
    THEN [folder |-> folder, outcome |-> "IndexError", net |-> 1]
    ELSE [folder |-> [folder EXCEPT ![name] = Saved(from_documents(documents))],
          outcome |-> "ok", net |-> 1]

\* VectorStore.delete_all_indexes: the folder is removed with all it holds.
delete_all_indexes(folder) == [n \in IndexNames |-> NoIndex]

\* ---------------------------------------------------------------- retrieval
Queries == { <<"a">>, <<"b">> }

\* The embedding of a query, made with the same provider.
embed_query(query) == Embed(query)

\* The L2 distance FAISS scores an entry with.
Distance(qv, vector) == (qv - vector) * (qv - vector)

\* Whether entry i comes before entry j in the search order: the smaller
\* distance first, the earlier entry first among equals.
Before(index, qv, i, j) ==
    LET di == Distance(qv, index[i].vector)
        dj == Distance(qv, index[j].vector)
    IN di < dj \/ (di = dj /\ i < j)

\* The k nearest among the entries left, nearest first, as (entry position,
\* score) pairs.
RECURSIVE Nearest(_, _, _, _)
Nearest(index, qv, left, k) ==
    IF k = 0 \/ left = {} THEN <<>>
    ELSE LET i == CHOOSE c \in left :
                    \A j \in left : c = j \/ Before(index, qv, c, j)
         IN <<[entry |-> i, score |-> Distance(qv, index[i].vector)]>>
            \o Nearest(index, qv, left \ {i}, k - 1)

\* FAISS.similarity_search_with_score: the query is embedded and the k nearest
\* entries are given, nearest first; the Document of a pair is the docstore's
\* own object.
similarity_search_with_score(index, query, k) ==
    Nearest(index, embed_query(query), 1..Len(index), k)

\* The loop of FaissWithScore.similarity_search over docs_with_score from pair
\* r on: doc.metadata["score"] = score writes into the docstore's Document.
RECURSIVE AttachScores(_, _, _)
AttachScores(index, docs_with_score, r) ==
    IF r > Len(docs_with_score) THEN index
    ELSE LET p == docs_with_score[r]
         IN AttachScores(
                [index EXCEPT ![p.entry].doc.metadata.score = <<p.score>>],
                docs_with_score, r + 1)

\* FaissWithScore.similarity_search: the index after the call, the pairs the
\* search gave, and the Documents returned.
similarity_search(index, query, k) ==
    LET docs_with_score == similarity_search_with_score(index, query, k)
        after == AttachScores(index, docs_with_score, 1)
    IN [index |-> after,
        docs_with_score |-> docs_with_score,
        docs |-> [r \in 1..Len(docs_with_score) |-> after[docs_with_score[r].entry].doc]]

\* -------------------------------------------------------------------- Agent
NoChain == [bound |-> FALSE, index |-> <<>>]
Chain(index) == [bound |-> TRUE, index |-> index]

\* FaissWithScore.load_local: the index persisted under the name, or a
\* failure when the folder holds none.
load_local(folder, name) ==
    IF ~folder[name].saved
    THEN [ok |-> FALSE, error |-> "IndexLoadError"]
    ELSE [ok |-> TRUE, index |-> folder[name].entries]

\* A slip in initialize_chain: self.qa_chain is bound before the index is
\* loaded, so a failed load leaves a chain without an index behind.
initialize_chain_binds_early(chain, folder, name, key) ==
    IF ~OpenAIEmbeddings(key)
    THEN [qa_chain |-> chain, outcome |-> "MissingCredential", loaded |-> FALSE]
    ELSE LET vectorstore == load_local(folder, name)
         IN IF ~vectorstore.ok
            THEN [qa_chain |-> Chain(<<>>), outcome |-> vectorstore.error,
                  loaded |-> FALSE]
            ELSE [qa_chain |-> Chain(vectorstore.index),
                  outcome |-> "ok", loaded |-> TRUE]

\* Agent.initialize_chain: the qa_chain afterwards and the outcome.  The chain
\* is bound last, once the embeddings, the key, the index and the LLM are there.
initialize_chain(chain, folder, name, key) ==
    IF ~OpenAIEmbeddings(key)
    THEN [qa_chain |-> chain, outcome |-> "MissingCredential", loaded |-> FALSE]
    ELSE IF ~key
    THEN [qa_chain |-> chain, outcome |-> "MissingCredential", loaded |-> FALSE]
    ELSE LET vectorstore == load_local(folder, name)
         IN IF ~vectorstore.ok
            THEN [qa_chain |-> chain, outcome |-> vectorstore.error, loaded |-> FALSE]
            ELSE [qa_chain |-> Chain(vectorstore.index),
                  outcome |-> "ok", loaded |-> TRUE]

\* A slip in Agent.run: the sources are listed last first.
source_documents_reversed(docs) ==
    [i \in 1..Len(docs) |->
        [title |-> docs[Len(docs) + 1 - i].metadata.title,
         url |-> docs[Len(docs) + 1 - i].metadata.source,
         score |-> docs[Len(docs) + 1 - i].metadata.score]]

\* The source_documents list of Agent.run from the Documents the chain gives.
source_documents(docs) ==
    [i \in 1..Len(docs) |->
        [title |-> docs[i].metadata.title,
         url |-> docs[i].metadata.source,
         score |-> docs[i].metadata.score]]

\* The LLM's answer to a prompt over the retrieved Documents.
LLM(prompt, docs) == <<"answer", "to">> \o prompt

NoResult == [answer_text |-> <<>>, source_documents |-> <<>>]
NoFound == [index |-> <<>>, docs_with_score |-> <<>>, docs |-> <<>>]
NoArg == [name |-> "", docs |-> <<>>, prompt |-> <<>>]

\* What an operation leaves behind for its caller.
Call(op, arg, outcome, net, loaded, result, retrieved) ==
    [op |-> op, arg |-> arg, outcome |-> outcome, net |-> net, loaded |-> loaded,
     result |-> result, retrieved |-> retrieved]

\* A slip in Agent.run: the chain is built on every call.
NeedsInit_always(chain) == TRUE

\* Agent.run: the chain is built only when there is none.
NeedsInit(chain) == chain = NoChain

VARIABLES
    apiKey,       \* whether OPENAI_API_KEY is set in the environment
    pages,        \* the site: what each article url serves
    folder,       \* vector_store_faiss: for each index name, the index saved
    documents,    \* what handler.get_documents_from_urls last returned
    qa_chain,     \* Agent.qa_chain: None, or the chain with its loaded index
    loadedIndex,  \* the index as load_local last gave it to the Agent
    everFailed,   \* whether an initialize_chain of the Agent has failed
    runLoads,     \* how many times Agent.run has loaded the index
    lastCall,     \* the last operation, its outcome and what it returned
    spc,        \* the splitter run: "input" before split_documents, "split" after
    stext,      \* the content of the Document handed to split_documents
    schunks,      \* the contents of the chunks split_documents returned    ,
    fpc,          \* the ingestion run's place: start, get, sleep, done, failed
    furl,         \* the url _request is fetching
    fdocuments,   \* the documents list of _generate_documents
    fchunks,      \* what get_documents_from_urls returned
    fetches,      \* how many requests.get the run has issued
    sinceFetch,   \* ticks since the last requests.get was issued (capped)
    slept,        \* ticks the running time.sleep has slept (capped)
    lastGap       \* <<ticks between the last two requests.get>>, <<>> before

mvars == <<apiKey, folder, documents, qa_chain, loadedIndex, everFailed,
           runLoads, lastCall>>
svars == <<spc, stext, schunks>>
fvars == <<fpc, furl, fdocuments, fchunks, fetches, sinceFetch, slept, lastGap>>
vars == <<mvars, pages, svars, fvars>>

\* The handler has returned nothing yet, or the chunks it returned.
NoDocs == [returned |-> FALSE, docs |-> <<>>]
Returned(docs) == [returned |-> TRUE, docs |-> docs]
Idle == Call("none", NoArg, "ok", 0, FALSE, NoResult, NoFound)

\* The variables of a part of the program that a specification leaves aside.
MainAside ==
    /\ apiKey = TRUE /\ folder = [n \in IndexNames |-> NoIndex]
    /\ documents = NoDocs /\ qa_chain = NoChain /\ loadedIndex = <<>>
    /\ everFailed = FALSE /\ runLoads = 0 /\ lastCall = Idle
SplitAside == spc = "input" /\ stext = <<>> /\ schunks = <<>>
FetchAside ==
    /\ fpc = "start" /\ furl = RootUrl /\ fdocuments = <<>> /\ fchunks = NoDocs
    /\ fetches = 0 /\ sinceFetch = 0 /\ slept = 0 /\ lastGap = <<>>

\* ------------------------------------------- the scripts and the Agent (Spec)
Init ==
    /\ apiKey \in BOOLEAN
    /\ pages \in Sites
    /\ folder = [n \in IndexNames |-> NoIndex]
    /\ documents = NoDocs
    /\ qa_chain = NoChain
    /\ loadedIndex = <<>>
    /\ everFailed = FALSE
    /\ runLoads = 0
    /\ lastCall = Idle
    /\ SplitAside
    /\ FetchAside

\* os.environ gains OPENAI_API_KEY.
SetKey ==
    /\ ~apiKey
    /\ apiKey' = TRUE
    /\ lastCall' = Call("setenv", NoArg, "ok", 0, FALSE, NoResult, NoFound)
    /\ UNCHANGED <<pages, svars, fvars, folder, documents, qa_chain, loadedIndex,
                 everFailed, runLoads>>

\* os.environ loses OPENAI_API_KEY.
UnsetKey ==
    /\ apiKey
    /\ apiKey' = FALSE
    /\ lastCall' = Call("unsetenv", NoArg, "ok", 0, FALSE, NoResult, NoFound)
    /\ UNCHANGED <<pages, svars, fvars, folder, documents, qa_chain, loadedIndex,
                 everFailed, runLoads>>

\* documents = handler.get_documents_from_urls(root_urls); an exception leaves
\* documents unassigned.
GetDocuments ==
    LET r == get_documents_from_urls(pages)
    IN /\ ~documents.returned
       /\ documents' = IF r.ok THEN Returned(r.documents) ELSE documents
       /\ lastCall' = Call("get_documents_from_urls", NoArg,
                           IF r.ok THEN "ok" ELSE r.error, 0, FALSE, NoResult, NoFound)
       /\ UNCHANGED <<pages, svars, fvars, apiKey, folder, qa_chain, loadedIndex,
                    everFailed, runLoads>>

\* store.delete_all_indexes()
DeleteAllIndexes ==
    /\ folder' = delete_all_indexes(folder)
    /\ lastCall' = Call("delete_all_indexes", NoArg, "ok", 0, FALSE, NoResult, NoFound)
    /\ UNCHANGED <<pages, svars, fvars, apiKey, documents, qa_chain, loadedIndex,
                    everFailed, runLoads>>

\* The Document lists a caller hands to store_to_vectoredb: all the chunks the
\* handler returned, or the first of them alone.
DocChoices ==
    IF Len(documents.docs) = 0 THEN {<<>>}
    ELSE {documents.docs, <<documents.docs[1]>>}

\* VectorStore(index_name=name).store_to_vectoredb(docs)
StoreToVectoredb(name, docs) ==
    LET r == store_to_vectoredb(folder, name, docs, apiKey)
    IN /\ documents.returned
       /\ folder' = r.folder
       /\ lastCall' = Call("store_to_vectoredb",
                           [name |-> name, docs |-> docs, prompt |-> <<>>],
                           r.outcome, r.net, FALSE, NoResult, NoFound)
       /\ UNCHANGED <<pages, svars, fvars, apiKey, documents, qa_chain, loadedIndex,
                    everFailed, runLoads>>

\* The script's __main__: the documents of the site, delete_all_indexes, then
\* store_to_vectoredb under the default names.  An exception ends the script
\* where it is raised.
Main ==
    LET r == get_documents_from_urls(pages)
        emptied == delete_all_indexes(folder)
        st == store_to_vectoredb(emptied, DefaultIndexName, r.documents, apiKey)
    IN /\ documents' = IF r.ok THEN Returned(r.documents) ELSE documents
       /\ folder' = IF r.ok THEN st.folder ELSE folder
       /\ lastCall' = IF r.ok
                      THEN Call("main", NoArg, st.outcome, st.net, FALSE,
                                NoResult, NoFound)
                      ELSE Call("main", NoArg, r.error, 0, FALSE, NoResult, NoFound)
       /\ UNCHANGED <<pages, svars, fvars, apiKey, qa_chain, loadedIndex,
                       everFailed, runLoads>>

\* agent.initialize_chain() called by the Agent's user.
InitializeChain ==
    LET r == initialize_chain(qa_chain, folder, DefaultIndexName, apiKey)
    IN /\ qa_chain' = r.qa_chain
       /\ loadedIndex' = IF r.loaded THEN r.qa_chain.index ELSE loadedIndex
       /\ everFailed' = (everFailed \/ r.outcome # "ok")
       /\ lastCall' = Call("initialize_chain", NoArg, r.outcome, 0, r.loaded,
                           NoResult, NoFound)
       /\ UNCHANGED <<pages, svars, fvars, apiKey, folder, documents, runLoads>>

\* agent.run(prompt): the chain is built when there is none; the chain then
\* retrieves (one call to the embedding provider), asks the LLM (one call) and
\* the result is put together from the chain's answer.
Run(prompt) ==
    LET r == IF NeedsInit(qa_chain)
             THEN initialize_chain(qa_chain, folder, DefaultIndexName, apiKey)
             ELSE [qa_chain |-> qa_chain, outcome |-> "ok", loaded |-> FALSE]
        found == similarity_search(r.qa_chain.index, prompt, DefaultK)
        answer == [result |-> LLM(prompt, found.docs), source_documents |-> found.docs]
    IN /\ everFailed' = (everFailed \/ r.outcome # "ok")
       /\ loadedIndex' = IF r.loaded THEN r.qa_chain.index ELSE loadedIndex
       /\ runLoads' = IF r.loaded THEN runLoads + 1 ELSE runLoads
       /\ IF r.outcome # "ok"
          THEN /\ qa_chain' = r.qa_chain
               /\ lastCall' = Call("run", [NoArg EXCEPT !.prompt = prompt],
                                   r.outcome, 0, FALSE, NoResult, NoFound)
          ELSE /\ qa_chain' = Chain(found.index)
               /\ lastCall' = Call("run", [NoArg EXCEPT !.prompt = prompt],
                                   "ok", 2, r.loaded,
                                   [answer_text |-> answer.result,
                                    source_documents |->
                                        source_documents(answer.source_documents)],
                                   found)
       /\ UNCHANGED <<pages, svars, fvars, apiKey, folder, documents>>

\* A caller of VectorStore, with an index name and a Document list of its own.
Store == \E name \in IndexNames : \E docs \in DocChoices : StoreToVectoredb(name, docs)

\* A user of the Agent, with a question.
Ask == \E prompt \in Queries : Run(prompt)

Next ==
    \/ SetKey
    \/ UnsetKey
    \/ GetDocuments
    \/ DeleteAllIndexes
    \/ Store
    \/ Main
    \/ InitializeChain
    \/ Ask

Spec == Init /\ [][Next]_vars

\* ------------------------------------- the ingestion run in time (SpecFetch)
\* The handler's get_documents_from_urls step by step, with a clock: every
\* _request issues requests.get and then sleeps before it returns the page.
SleepTicks == SleepSeconds * TicksPerSecond
\* Elapsed times are counted up to one tick past the sleep.
CapTicks == SleepTicks + 1

\* A slip in _request: no sleep.
SleepOver_none(ticks) == TRUE

\* time.sleep(1) returns once a second has gone by.
SleepOver(ticks) == ticks >= SleepTicks

InitFetch ==
    /\ pages \in [PageUrls -> PageKinds]
    /\ fpc = "start"
    /\ furl = RootUrl
    /\ fdocuments = <<>>
    /\ fchunks = NoDocs
    /\ fetches = 0
    /\ sinceFetch = 0
    /\ slept = 0
    /\ lastGap = <<>>
    /\ MainAside
    /\ SplitAside

\* get_documents_from_urls begins: _get_page_urls calls _request(root url).
FetchStart ==
    /\ fpc = "start"
    /\ fpc' = "get"
    /\ furl' = RootUrl
    /\ UNCHANGED <<fdocuments, fchunks, fetches, sinceFetch, slept, lastGap>>
    /\ UNCHANGED <<mvars, pages, svars>>

\* _request: requests.get(url) is issued and answered; time.sleep(1) begins.
RequestGet ==
    /\ fpc = "get"
    /\ fpc' = "sleep"
    /\ fetches' = fetches + 1
    /\ lastGap' = IF fetches > 0 THEN <<sinceFetch>> ELSE <<>>
    /\ sinceFetch' = 0
    /\ slept' = 0
    /\ UNCHANGED <<furl, fdocuments, fchunks>>
    /\ UNCHANGED <<mvars, pages, svars>>

\* One tick of the clock goes by.
Tick ==
    /\ fpc \in {"get", "sleep"}
    /\ sinceFetch < CapTicks \/ (fpc = "sleep" /\ slept < CapTicks)
    /\ sinceFetch' = IF sinceFetch < CapTicks THEN sinceFetch + 1 ELSE sinceFetch
    /\ slept' = IF fpc = "sleep" /\ slept < CapTicks THEN slept + 1 ELSE slept
    /\ UNCHANGED <<fpc, furl, fdocuments, fchunks, fetches, lastGap>>
    /\ UNCHANGED <<mvars, pages, svars>>

\* _request(root url) returns to _get_page_urls; get_documents_from_urls goes
\* on to _generate_documents, whose loop calls generate_document(first url).
ReturnRoot ==
    /\ fpc = "sleep" /\ furl = RootUrl
    /\ SleepOver(slept)
    /\ fpc' = "get"
    /\ furl' = get_page_urls(RootUrl)[1]
    /\ UNCHANGED <<fdocuments, fchunks, fetches, sinceFetch, slept, lastGap>>
    /\ UNCHANGED <<mvars, pages, svars>>

\* _request(page url) returns to generate_document, which builds the Document;
\* the loop goes on to the next url, or ends and the documents are split.
ReturnPage ==
    LET r == generate_document(furl, pages[furl])
        docs == Append(fdocuments, r.doc)
    IN /\ fpc = "sleep" /\ furl # RootUrl
       /\ SleepOver(slept)
       /\ r.ok
       /\ fdocuments' = docs
       /\ IF furl < NumPages
          THEN fpc' = "get" /\ furl' = furl + 1 /\ UNCHANGED fchunks
          ELSE fpc' = "done" /\ fchunks' = Returned(split_documents(docs))
                  /\ UNCHANGED furl
       /\ UNCHANGED <<fetches, sinceFetch, slept, lastGap>>
       /\ UNCHANGED <<mvars, pages, svars>>

\* generate_document raises on a page that lacks an element: the exception
\* leaves _generate_documents and get_documents_from_urls.
ReturnPageRaises ==
    /\ fpc = "sleep" /\ furl # RootUrl
    /\ SleepOver(slept)
    /\ ~generate_document(furl, pages[furl]).ok
    /\ fpc' = "failed"
    /\ UNCHANGED <<furl, fdocuments, fchunks, fetches, sinceFetch, slept, lastGap>>
    /\ UNCHANGED <<mvars, pages, svars>>

NextFetch ==
    \/ FetchStart
    \/ RequestGet
    \/ Tick
    \/ ReturnRoot
    \/ ReturnPage
    \/ ReturnPageRaises

SpecFetch == InitFetch /\ [][NextFetch]_vars

\* --------------------------------------------- the splitter alone (SpecSplit)
InitSplit ==
    /\ spc = "input"
    /\ stext \in TextsUpTo(MaxLen)
    /\ schunks = <<>>
    /\ pages = [u \in PageUrls |-> Page(TRUE, TRUE, TRUE, TRUE, BodyShort)]
    /\ MainAside
    /\ FetchAside

\* split_documents on a Document with content stext.
SplitOne ==
    /\ spc = "input"
    /\ spc' = "split"
    /\ schunks' = split_text(stext, ScaledChunkSize, ScaledChunkOverlap)
    /\ UNCHANGED <<stext, mvars, pages, fvars>>

NextSplit == SplitOne

SpecSplit == InitSplit /\ [][NextSplit]_vars

\* ===================================================================== claims
AgentInit(call) == call.op \in {"initialize_chain", "run"}
InitErrors == {"MissingCredential", "IndexLoadError"}
RunOk == lastCall.op = "run" /\ lastCall.outcome = "ok"
StoreOk(call) == call.op = "store_to_vectoredb" /\ call.outcome = "ok"
OnlyUnder(name, docs) ==
    [n \in IndexNames |-> IF n = name THEN Saved(from_documents(docs)) ELSE NoIndex]

\* C1: when initialize_chain fails on an Agent without a chain, called from
\* run or directly, the caller gets the error and no result, qa_chain is
\* still None; the call fails exactly when the key or the persisted index is
\* missing, and a call made once both are there binds the chain.
C1_FailedInitStaysUninitialized ==
    [][(AgentInit(lastCall') /\ ~qa_chain.bound) =>
         /\ (lastCall'.outcome = "ok") <=> (apiKey /\ folder[DefaultIndexName].saved)
         /\ lastCall'.outcome \in InitErrors \cup {"ok"}
         /\ lastCall'.outcome \in InitErrors =>
                /\ qa_chain' = NoChain
                /\ lastCall'.result = NoResult
                /\ everFailed'
         /\ lastCall'.outcome = "ok" => qa_chain'.bound]_vars

\* C1 witness: an Agent whose initialize_chain failed earlier is Ready after a
\* later run.
C1_Witness == everFailed /\ qa_chain.bound /\ RunOk /\ lastCall.loaded

\* C2 as stated: after get_documents_from_urls over the pages, a page lacking
\* a field is skipped and every complete page has its chunks in the result.
C2_BadPageIsSkipped ==
    lastCall.op = "get_documents_from_urls" =>
        /\ lastCall.outcome = "ok"
        /\ documents.returned
        /\ \A u \in PageUrls :
              Complete(pages[u]) <=>
                 \E i \in 1..Len(documents.docs) : documents.docs[i].metadata.source = u

\* C3 as stated: after store_to_vectoredb returns, the folder holds the entries
\* of the chunks of this build and nothing else, under any index name.
C3_StoreLeavesOnlyThisBuild ==
    StoreOk(lastCall) => folder = OnlyUnder(lastCall.arg.name, lastCall.arg.docs)

\* C3 amended: store_to_vectoredb replaces the index saved under its own index
\* name by the entries of the chunks passed (no merge) and leaves the indexes
\* under other names as they were; the folder holds this build alone when
\* delete_all_indexes ran just before, as in __main__.
C3_StoreReplacesOwnIndex ==
    [][/\ StoreOk(lastCall') =>
            /\ folder'[lastCall'.arg.name] = Saved(from_documents(lastCall'.arg.docs))
            /\ \A n \in IndexNames \ {lastCall'.arg.name} : folder'[n] = folder[n]
            /\ lastCall.op = "delete_all_indexes" =>
                   folder' = OnlyUnder(lastCall'.arg.name, lastCall'.arg.docs)
       /\ (lastCall'.op = "main" /\ lastCall'.outcome = "ok") =>
            folder' = OnlyUnder(DefaultIndexName, documents'.docs)]_vars

\* C3 witness: a build under one index name has returned while the folder
\* holds an index under another name.
C3_Witness ==
    /\ StoreOk(lastCall)
    /\ \E n \in IndexNames \ {lastCall.arg.name} : folder[n].saved

\* C4: run returns one source entry per retrieved chunk, in the order of the
\* retrieval (nearest first, the default k = 5 at most), each with the title,
\* the url and the score of its own chunk.
C4_SourcesFollowRetrieval ==
    RunOk =>
      LET pairs == lastCall.retrieved.docs_with_score
          src == lastCall.result.source_documents
      IN /\ Len(src) = Len(pairs)
         /\ Len(src) = IF Len(loadedIndex) < DefaultK THEN Len(loadedIndex) ELSE DefaultK
         /\ lastCall.result.answer_text # <<>>
         /\ \A i \in 1..Len(src) :
               /\ pairs[i].entry \in 1..Len(loadedIndex)
               /\ src[i].title = loadedIndex[pairs[i].entry].doc.metadata.title
               /\ src[i].url = loadedIndex[pairs[i].entry].doc.metadata.source
               /\ src[i].score = <<pairs[i].score>>
         /\ \A i, j \in 1..Len(pairs) :
               i < j => /\ pairs[i].score <= pairs[j].score
                        /\ pairs[i].entry # pairs[j].entry
         /\ \A e \in 1..Len(loadedIndex) :
               (\A i \in 1..Len(pairs) : pairs[i].entry # e) =>
                  \A i \in 1..Len(pairs) :
                     pairs[i].score <=
                        Distance(embed_query(lastCall.arg.prompt), loadedIndex[e].vector)

\* C4 witness: a run over an index of more than k entries returned k sources,
\* not all with the same score nor from the same page.
C4_Witness ==
    /\ RunOk
    /\ Len(loadedIndex) > DefaultK
    /\ Len(lastCall.result.source_documents) = DefaultK
    /\ \E i, j \in 1..DefaultK :
          /\ lastCall.result.source_documents[i].score
                # lastCall.result.source_documents[j].score
          /\ lastCall.result.source_documents[i].url
                # lastCall.result.source_documents[j].url

\* C5: without OPENAI_API_KEY, initialize_chain (called directly or from run)
\* and store_to_vectoredb fail with the missing-credential error, and no call
\* to the embedding provider or the LLM has been made.
C5_NoKeyFailsBeforeNetwork ==
    [][(/\ ~apiKey
        /\ \/ lastCall'.op \in {"initialize_chain", "store_to_vectoredb"}
           \/ (lastCall'.op = "run" /\ ~qa_chain.bound)) =>
         /\ lastCall'.outcome = "MissingCredential"
         /\ lastCall'.net = 0
         /\ folder' = folder
         /\ qa_chain' = qa_chain]_vars

\* C5 witness: an index build was attempted without the key.
C5_Witness ==
    /\ ~apiKey
    /\ lastCall.op = "store_to_vectoredb"
    /\ lastCall.outcome = "MissingCredential"
    /\ Len(lastCall.arg.docs) > 0

\* C6 as stated: the index the Agent holds is what load_local gave it, chunk
\* metadata included, whatever runs have been made.
C6_RunLeavesIndexAsLoaded == qa_chain.bound => qa_chain.index = loadedIndex

\* C8: no Document the handler returns, and no chunk saved in the folder or
\* loaded from it, has a score; every chunk a retrieval returns has the score
\* the index computes for that chunk and the query.
C8_ScoreOnlyFromRetrieval ==
    /\ \A i \in 1..Len(documents.docs) : documents.docs[i].metadata.score = NoScore
    /\ \A n \in IndexNames : \A i \in 1..Len(folder[n].entries) :
          folder[n].entries[i].doc.metadata.score = NoScore
    /\ \A i \in 1..Len(loadedIndex) : loadedIndex[i].doc.metadata.score = NoScore
    /\ RunOk =>
         LET found == lastCall.retrieved
         IN /\ Len(found.docs) = Len(found.docs_with_score)
            /\ \A r \in 1..Len(found.docs) :
                 LET e == loadedIndex[found.docs_with_score[r].entry]
                 IN /\ found.docs[r].page_content = e.doc.page_content
                    /\ found.docs[r].metadata.source = e.doc.metadata.source
                    /\ found.docs[r].metadata.score =
                          <<Distance(embed_query(lastCall.arg.prompt), e.vector)>>

\* C8 witness: a retrieval returned a chunk that an earlier retrieval, for
\* another query, had given another score.
C8_Witness ==
    /\ RunOk
    /\ folder[DefaultIndexName].saved
    /\ \E r \in 1..Len(lastCall.retrieved.docs) :
          LET e == lastCall.retrieved.docs_with_score[r].entry
          IN \E q \in Queries :
                /\ q # lastCall.arg.prompt
                /\ Distance(embed_query(q), loadedIndex[e].vector)
                      # lastCall.retrieved.docs_with_score[r].score
    /\ runLoads = 1 /\ ~lastCall.loaded

\* C10: once a run has bound the chain the Agent never is without one again,
\* a run on an Agent with a chain loads nothing, and run loads the index at
\* most once.
C10_RunLoadsOnce ==
    [][/\ qa_chain.bound => qa_chain'.bound
       /\ (lastCall'.op = "run" /\ qa_chain.bound) =>
            /\ ~lastCall'.loaded
            /\ loadedIndex' = loadedIndex
            /\ runLoads' = runLoads
       /\ runLoads' <= 1]_vars

\* C10 witness: a run on the Agent whose chain an earlier run had bound.
C10_Witness == RunOk /\ runLoads = 1 /\ ~lastCall.loaded /\ qa_chain.bound

\* C9: between two successive requests.get of the run, whether made for
\* _get_page_urls or for generate_document, at least one second goes by.
C9_SecondBetweenFetches == lastGap = <<>> \/ lastGap[1] >= SleepSeconds * TicksPerSecond

\* C9 witness: generate_document has fetched a page after another page.
C9_Witness == fetches >= 3 /\ lastGap # <<>> /\ furl # RootUrl

NoWhitespace(text) == \A i \in 1..Len(text) : text[i] \notin Whitespace
AllWithin(chunks, size) == \A i \in 1..Len(chunks) : Len(chunks[i]) <= size

\* Whether the chunks from the i-th on lie in the content, the i-th at pos,
\* each starting at most overlap characters before the end of the one before
\* it and not after it, the last ending where the content ends.
RECURSIVE Covers(_, _, _, _, _)
Covers(chunks, i, pos, content, overlap) ==
    LET c == chunks[i]
        end == pos + Len(c) - 1
    IN /\ end <= Len(content)
       /\ SubSeq(content, pos, end) = c
       /\ IF i = Len(chunks)
          THEN end = Len(content)
          ELSE \E o \in 0..overlap :
                  /\ o <= Len(c)
                  /\ o <= Len(chunks[i + 1])
                  /\ Covers(chunks, i + 1, end + 1 - o, content, overlap)

\* Consecutive chunks overlap by at most overlap characters and the chunks,
\* less the overlaps, put end to end are the content.
Reconstructs(chunks, content, overlap) ==
    IF Len(chunks) = 0 THEN content = <<>>
    ELSE Covers(chunks, 1, 1, content, overlap)

\* C7 as stated: a content longer than the chunk size is split into chunks no
\* longer than it, which overlap by at most the overlap and reconstruct it.
C7_ChunksReconstructContent ==
    (spc = "split" /\ Len(stext) > ScaledChunkSize) =>
        /\ AllWithin(schunks, ScaledChunkSize)
        /\ Reconstructs(schunks, stext, ScaledChunkOverlap)

\* C7 amended: a content longer than the chunk size is split into chunks no
\* longer than it; when the content has no whitespace the chunks overlap by at
\* most the overlap and reconstruct it, a content of up to twice the chunk
\* size less the overlap yields 2 chunks, the second starting overlap
\* characters before the chunk size boundary; a content without whitespace
\* that is not longer than the chunk size yields 1 chunk, the content.
C7_ChunksWithinSize ==
    spc = "split" =>
        /\ Len(stext) > ScaledChunkSize => AllWithin(schunks, ScaledChunkSize)
        /\ (Len(stext) > ScaledChunkSize /\ NoWhitespace(stext)) =>
              /\ Reconstructs(schunks, stext, ScaledChunkOverlap)
              /\ Len(stext) <= 2 * ScaledChunkSize - ScaledChunkOverlap =>
                    /\ Len(schunks) = 2
                    /\ schunks[1] = SubSeq(stext, 1, ScaledChunkSize)
                    /\ schunks[2] = SubSeq(stext, ScaledChunkSize - ScaledChunkOverlap + 1,
                                           Len(stext))
        /\ (Len(stext) \in 1..ScaledChunkSize /\ NoWhitespace(stext)) =>
              schunks = <<stext>>

\* C7 witness: a content without whitespace and longer than the chunk size has
\* been split in two overlapping chunks.
C7_Witness ==
    /\ spc = "split"
    /\ NoWhitespace(stext)
    /\ Len(stext) > ScaledChunkSize
    /\ Len(schunks) = 2
    /\ schunks[2][1] = stext[ScaledChunkSize]

====
